---- MODULE Spec2Model ----
(***************************************************************************)
(* Model of brown2020/KappaReport.                                         *)
(*                                                                         *)
(*   src/update_data.py   add_new_data_point: appends one measurement to   *)
(*                        the data file.                                   *)
(*   src/kappa_report.py  main: loads the data file, derives the per-row   *)
(*                        metrics, splits the series at settings.split_date*)
(*                        fits each phase with scipy's curve_fit, projects *)
(*                        both fits, looks up the threshold crossings and  *)
(*                        writes the four page report.                     *)
(*                                                                         *)
(* Units.  Dates are day numbers.  Kappa and lambda readings are integers  *)
(* in hundredths (125 is 1.25 mg/L); a value rounded to one decimal is an  *)
(* integer in tenths, one rounded to two decimals an integer in hundredths.*)
(* A float that an IEEE division can make non-finite is a record           *)
(* [kind, v] with kind "num", "inf" or "nan".                              *)
(***************************************************************************)
EXTENDS Integers, Sequences, FiniteSets

\* ------------------------------------------------------------------ bounds
\* Longest measurements list the data file is grown to.
MaxLen == 3
\* Measurement dates are the day numbers 0..MaxDay.
MaxDay == 2
\* Longest curve handed to the threshold lookup on its own.
MaxCurve == 3

\* ------------------------------------------------------------------ inputs
Days == 0..MaxDay
\* (kappa, lambda) readings in hundredths: a zero kappa, a zero lambda, and
\* values whose differences and ratios need rounding.
Readings ==
    { [kappa |-> 0,   lambda |-> 100],
      [kappa |-> 300, lambda |-> 0],
      [kappa |-> 125, lambda |-> 100] }
Measurement ==
    { [date |-> d, kappa |-> r.kappa, lambda |-> r.lambda] : d \in Days, r \in Readings }
\* settings objects of the data file: the cutover lies inside the range of
\* dates; the projection ends before every observation or after all of them.
SplitDates == {1}
EndDates == {-1, MaxDay + 3}
Thresholds == { [vgpr |-> 300, cr |-> 100] }
Settings ==
    { [split_date |-> s, projection_end_date |-> e,
       vgpr_threshold |-> t.vgpr, cr_threshold |-> t.cr] :
         s \in SplitDates, e \in EndDates, t \in Thresholds }

VARIABLES
    data,       \* the data file: [measurements, settings, other]
    orig,       \* the data file as first found (history)
    added,      \* records passed to add_new_data_point so far (history)
    pc,         \* position of the report run (kappa_report.main)
    error,      \* exception that ended the run, "none" while there is none
    df,         \* DataFrame of kappa_report.main: sequence of rows
    df_pre,     \* rows with Date <= split_date
    df_post,    \* rows with Date >= split_date
    fits,       \* per phase: the curve_fit call and what it returned
    proj,       \* pre_dates, post_dates and the projected post curve
    found,      \* vgpr_date and cr_date
    pdf,        \* pages saved to the report
    solver,     \* the least-squares loop inside one curve_fit call
    scan        \* one threshold lookup on a curve: [curve, threshold, result]

vars == << data, orig, added, pc, error, df, df_pre, df_post, fits, proj,
           found, pdf, solver, scan >>

runVars == << pc, error, df, df_pre, df_post, fits, proj, found, pdf >>

\* ----------------------------------------------------------------- helpers
Num(v) == [kind |-> "num", v |-> v]
Inf == [kind |-> "inf", v |-> 0]
NaN == [kind |-> "nan", v |-> 0]

\* numpy's round: n/d to the nearest integer, ties to the even one (d > 0).
RoundHalfEven(n, d) ==
    LET q == n \div d
        r == n - q * d
    IN  IF 2 * r < d THEN q
        ELSE IF 2 * r > d THEN q + 1
        ELSE IF q % 2 = 0 THEN q ELSE q + 1

Range(s) == { s[i] : i \in DOMAIN s }

SeqMin(s) == CHOOSE m \in Range(s) : \A x \in Range(s) : m <= x

\* ------------------------------------------------------- update_data.py
\* Mutant of Append_measurement: a measurement whose date is already stored
\* replaces the stored one.
AppendOrReplace(d, m) ==
    IF \E i \in 1..Len(d.measurements) : d.measurements[i].date = m.date
    THEN [d EXCEPT !.measurements =
            [ i \in 1..Len(@) |-> IF @[i].date = m.date THEN m ELSE @[i] ]]
    ELSE [d EXCEPT !.measurements = Append(@, m)]

\* data["measurements"].append(new_measurement); json.dump(data, f)
Append_measurement(d, m) ==
    [d EXCEPT !.measurements = Append(@, m)]

\* add_new_data_point(date, kappa, lambda_val): load, append, save.
AddNewDataPoint(m) ==
    /\ pc = "start"
    /\ Len(data.measurements) < MaxLen
    /\ data' = Append_measurement(data, m)
    /\ added' = Append(added, m)
    /\ UNCHANGED << orig, runVars, solver, scan >>

\* ------------------------------------------------------ kappa_report.py
\* df["Ratio"] = (df["Kappa"] / df["Lambda"]).round(2)
Ratio(kappa, lambda) ==
    IF lambda = 0
    THEN (IF kappa = 0 THEN NaN ELSE Inf)
    ELSE Num(RoundHalfEven(kappa * 100, lambda))

\* df["Delta"] = df["Kappa"].diff().fillna(0).round(1), in tenths.
Delta(ms, i) ==
    IF i = 1 THEN 0 ELSE RoundHalfEven(ms[i].kappa - ms[i - 1].kappa, 10)

\* df["% Change"] = (df["Kappa"].pct_change().fillna(0) * 100).round(1)
\*                  .astype(str) + "%", the number in tenths of a percent.
PctChange(ms, i) ==
    IF i = 1 THEN Num(0)
    ELSE LET prev == ms[i - 1].kappa
             cur == ms[i].kappa
         IN  IF prev = 0
             THEN (IF cur = 0 THEN Num(0) ELSE Inf)
             ELSE Num(RoundHalfEven((cur - prev) * 1000, prev))

\* The DataFrame built from the measurements, one row per measurement in
\* stored order, with the three derived columns.
DataFrame(ms) ==
    [ i \in 1..Len(ms) |->
        [ Index |-> i - 1,
          Date |-> ms[i].date,
          Kappa |-> ms[i].kappa,
          Lambda |-> ms[i].lambda,
          Ratio |-> Ratio(ms[i].kappa, ms[i].lambda),
          Delta |-> Delta(ms, i),
          PctChange |-> PctChange(ms, i) ] ]

\* Values of the run's locals before the statement that assigns them.
NoPopt == [none |-> TRUE]
NoFit == [called |-> FALSE, x |-> << >>, y |-> << >>, status |-> "none", popt |-> NoPopt]
NoFits == [ p \in {"pre", "post"} |-> NoFit ]
NoProj == [set |-> FALSE, pre_dates |-> << >>, post_dates |-> << >>,
           proj_pre |-> << >>, proj_post |-> << >>]
Unset == [kind |-> "unset", v |-> 0]
DateAt(d) == [kind |-> "date", v |-> d]
NoFound == [vgpr_date |-> Unset, cr_date |-> Unset]
NoSolver == [phase |-> "none", m |-> 0, nfev |-> 0, status |-> "idle"]
NoScan == [dates |-> << >>, curve |-> << >>, threshold |-> 0, result |-> Unset]

\* load_data(), the extraction of dates, kappa and lambda, and the check
\* that there is a measurement at all.
LoadData ==
    /\ pc = "start"
    /\ IF data.measurements = << >>
       THEN /\ pc' = "aborted"
            /\ error' = "ValueError"
       ELSE /\ pc' = "loaded"
            /\ error' = error
    /\ UNCHANGED << data, orig, added, df, df_pre, df_post, fits, proj,
                    found, pdf, solver, scan >>

\* Data Preparation: the DataFrame and its derived columns.
PrepareData ==
    /\ pc = "loaded"
    /\ df' = DataFrame(data.measurements)
    /\ pc' = "prepared"
    /\ UNCHANGED << data, orig, added, error, df_pre, df_post, fits, proj,
                    found, pdf, solver, scan >>

\* Mutant of PreRows: the cutover row is left out of the pre window.
PreRowsStrict(frame, split_date) ==
    SelectSeq(frame, LAMBDA r : r.Date < split_date)

\* df[df["Date"] <= split_date]: the rows on or before the cutover, in the
\* DataFrame's order.
PreRows(frame, split_date) ==
    SelectSeq(frame, LAMBDA r : r.Date <= split_date)

\* df[df["Date"] >= split_date]: the rows on or after the cutover.
PostRows(frame, split_date) ==
    SelectSeq(frame, LAMBDA r : r.Date >= split_date)

\* Model Fitting, first two statements: the split at settings.split_date.
SplitPhases ==
    /\ pc = "prepared"
    /\ df_pre' = PreRows(df, data.settings.split_date)
    /\ df_post' = PostRows(df, data.settings.split_date)
    /\ pc' = "split"
    /\ UNCHANGED << data, orig, added, error, df, fits, proj, found, pdf,
                    solver, scan >>

\* (w["Date"] - w["Date"].min()).dt.days.values: days since the window's
\* own earliest date, in the window's row order.
DayOffsets(w) ==
    [ i \in 1..Len(w) |-> w[i].Date - SeqMin([ j \in 1..Len(w) |-> w[j].Date ]) ]

KappaOf(w) == [ i \in 1..Len(w) |-> w[i].Kappa ]

\* Number of parameters of gompertz(x, A, B, C) and exp_model(x, A, k).
NParams(phase) == IF phase = "pre" THEN 3 ELSE 2

\* What curve_fit does with the samples before any iteration: an empty
\* ydata is a ValueError; the unbounded call (method lm) refuses fewer
\* samples than parameters with a TypeError; the bounded call (method trf)
\* accepts any non-empty sample.
InputError(phase, m) ==
    IF m = 0 THEN "ValueError"
    ELSE IF phase = "pre" /\ m < NParams(phase) THEN "TypeError"
    ELSE "none"

\* How a curve_fit call can end.
CurveFitOutcomes(phase, m) ==
    IF InputError(phase, m) # "none"
    THEN { InputError(phase, m) }
    ELSE { "converged", "RuntimeError" }

\* Parameters a converged fit can return.  The pre-phase triple (A, B, C) is
\* kept as a term.  The post-phase pair lies in the box [0, 1000] x [0, 1]:
\* A in hundredths, and exp(-k) as the fraction num/den (k = ln 2, k = 0).
PreFits == { [A |-> "A", B |-> "B", C |-> "C"] }
PostFits == { [A |-> 800, num |-> 1, den |-> 2], [A |-> 800, num |-> 1, den |-> 1] }

\* An exception leaves main: nothing after the raising statement runs.
Raise(exc) ==
    /\ pc' = "aborted"
    /\ error' = exc

\* x_pre and curve_fit(gompertz, x_pre, df_pre["Kappa"], p0=..., maxfev=10000)
FitPre ==
    /\ pc = "split"
    /\ \E st \in CurveFitOutcomes("pre", Len(df_pre)) :
         \E popt \in IF st = "converged" THEN PreFits ELSE { NoPopt } :
           /\ fits' = [fits EXCEPT !["pre"] =
                         [called |-> TRUE, x |-> DayOffsets(df_pre),
                          y |-> KappaOf(df_pre), status |-> st, popt |-> popt]]
           /\ IF st = "converged"
              THEN pc' = "fit_pre" /\ error' = error
              ELSE Raise(st)
    /\ UNCHANGED << data, orig, added, df, df_pre, df_post, proj, found, pdf,
                    solver, scan >>

\* Mutant of FitPost: a fit that ran out of evaluations hands back its last
\* iterate and main goes on.
FitPostKeepsLastIterate ==
    /\ pc = "fit_pre"
    /\ \E st \in CurveFitOutcomes("post", Len(df_post)) :
         \E popt \in IF st \in {"converged", "RuntimeError"} THEN PostFits ELSE { NoPopt } :
           /\ fits' = [fits EXCEPT !["post"] =
                         [called |-> TRUE, x |-> DayOffsets(df_post),
                          y |-> KappaOf(df_post), status |-> st, popt |-> popt]]
           /\ IF st \in {"converged", "RuntimeError"}
              THEN pc' = "fit_post" /\ error' = error
              ELSE Raise(st)
    /\ UNCHANGED << data, orig, added, df, df_pre, df_post, proj, found, pdf,
                    solver, scan >>

\* x_post and curve_fit(exp_model, x_post, df_post["Kappa"], bounds=(0, [1000, 1]))
FitPost ==
    /\ pc = "fit_pre"
    /\ \E st \in CurveFitOutcomes("post", Len(df_post)) :
         \E popt \in IF st = "converged" THEN PostFits ELSE { NoPopt } :
           /\ fits' = [fits EXCEPT !["post"] =
                         [called |-> TRUE, x |-> DayOffsets(df_post),
                          y |-> KappaOf(df_post), status |-> st, popt |-> popt]]
           /\ IF st = "converged"
              THEN pc' = "fit_post" /\ error' = error
              ELSE Raise(st)
    /\ UNCHANGED << data, orig, added, df, df_pre, df_post, proj, found, pdf,
                    solver, scan >>

\* pd.date_range(start, end): every day from start through end, none when
\* end is before start.
DateRange(start, end) ==
    [ i \in 1..(IF end >= start THEN end - start + 1 ELSE 0) |-> start + i - 1 ]

RECURSIVE Pow(_, _)
Pow(b, e) == IF e = 0 THEN 1 ELSE b * Pow(b, e - 1)

\* exp_model(x, A, k) = A * exp(-k * x), as the fraction n/d with
\* exp(-k) = num/den.
ExpModel(x, popt) == [n |-> popt.A * Pow(popt.num, x), d |-> Pow(popt.den, x)]

\* gompertz(x, A, B, C) = A * exp(-B * exp(-C * x)), kept as a term.
Gompertz(x, popt) == [model |-> "gompertz", x |-> x, popt |-> popt]

WindowStart(w) == SeqMin([ j \in 1..Len(w) |-> w[j].Date ])

\* Projections: both date ranges and both projected curves.
Project ==
    /\ pc = "fit_post"
    /\ LET end == data.settings.projection_end_date
           pre_dates == DateRange(WindowStart(df_pre), end)
           post_dates == DateRange(WindowStart(df_post), end)
       IN  proj' = [ set |-> TRUE,
                     pre_dates |-> pre_dates,
                     post_dates |-> post_dates,
                     proj_pre |-> [ i \in 1..Len(pre_dates) |->
                         Gompertz(pre_dates[i] - WindowStart(df_pre), fits["pre"].popt) ],
                     proj_post |-> [ i \in 1..Len(post_dates) |->
                         ExpModel(post_dates[i] - WindowStart(df_post), fits["post"].popt) ] ]
    /\ pc' = "projected"
    /\ UNCHANGED << data, orig, added, error, df, df_pre, df_post, fits,
                    found, pdf, solver, scan >>

\* Mutant of Below: a point equal to the threshold counts as below it.
BelowOrEqual(value, threshold) == value.n <= threshold * value.d

\* proj_post < threshold, element by element.
Below(value, threshold) == value.n < threshold * value.d

\* np.where(curve < threshold)[0]: the 0-based indices of the points below
\* the threshold, ascending.
Where(curve, threshold) ==
    SelectSeq([ i \in 1..Len(curve) |-> i - 1 ],
              LAMBDA i : Below(curve[i + 1], threshold))

IndexError == [kind |-> "IndexError", v |-> 0]

\* dates[np.where(curve < threshold)[0][0]]: indexing the empty index array
\* raises IndexError.
FirstCrossing(dates, curve, threshold) ==
    LET hits == Where(curve, threshold)
    IN  IF hits = << >> THEN IndexError ELSE DateAt(dates[hits[1] + 1])

\* Thresholds: vgpr_date, then cr_date.
FindThresholds ==
    /\ pc = "projected"
    /\ LET vgpr_date == FirstCrossing(proj.post_dates, proj.proj_post,
                                      data.settings.vgpr_threshold)
           cr_date == FirstCrossing(proj.post_dates, proj.proj_post,
                                    data.settings.cr_threshold)
       IN  IF vgpr_date = IndexError
           THEN /\ found' = found
                /\ Raise("IndexError")
           ELSE IF cr_date = IndexError
           THEN /\ found' = [found EXCEPT !.vgpr_date = vgpr_date]
                /\ Raise("IndexError")
           ELSE /\ found' = [vgpr_date |-> vgpr_date, cr_date |-> cr_date]
                /\ pc' = "thresholds"
                /\ error' = error
    /\ UNCHANGED << data, orig, added, df, df_pre, df_post, fits, proj, pdf,
                    solver, scan >>

\* f"{value:.1f}" of a value in hundredths: one decimal, in tenths.
Format1(value) ==
    IF value.kind = "num" THEN Num(RoundHalfEven(value.v, 10)) ELSE value

\* Page 3: one table line per DataFrame row.
Table(frame) ==
    [ i \in 1..Len(frame) |->
        [ Date |-> frame[i].Date,
          Kappa |-> Format1(Num(frame[i].Kappa)),
          Lambda |-> Format1(Num(frame[i].Lambda)),
          Ratio |-> Format1(frame[i].Ratio),
          Delta |-> frame[i].Delta,
          PctChange |-> frame[i].PctChange ] ]

\* PDF Report Generation: the four pages, in order.
GenerateReport ==
    /\ pc = "thresholds"
    /\ pdf' = << [page |-> "linear", curve |-> proj.proj_post,
                  vgpr_date |-> found.vgpr_date, cr_date |-> found.cr_date],
                 [page |-> "log", curve |-> proj.proj_post,
                  vgpr_date |-> found.vgpr_date, cr_date |-> found.cr_date],
                 [page |-> "table", rows |-> Table(df)],
                 [page |-> "notes", vgpr_date |-> found.vgpr_date,
                  cr_date |-> found.cr_date] >>
    /\ pc' = "done"
    /\ UNCHANGED << data, orig, added, error, df, df_pre, df_post, fits,
                    proj, found, solver, scan >>

Init ==
    /\ data \in [ measurements : {<< >>} \cup { << m >> : m \in Measurement },
                  settings : Settings, other : {"kept"} ]
    /\ orig = data
    /\ added = << >>
    /\ pc = "start"
    /\ error = "none"
    /\ df = << >>
    /\ df_pre = << >>
    /\ df_post = << >>
    /\ fits = NoFits
    /\ proj = NoProj
    /\ found = NoFound
    /\ pdf = << >>
    /\ solver = NoSolver
    /\ scan = NoScan

Next ==
    \/ \E m \in Measurement : AddNewDataPoint(m)
    \/ LoadData
    \/ PrepareData
    \/ SplitPhases
    \/ FitPre
    \/ FitPost
    \/ Project
    \/ FindThresholds
    \/ GenerateReport

Spec == Init /\ [][Next]_vars

\* ------------------------------------------- the threshold lookup alone
\* Curves of any shape, rising, falling or neither, as fractions n/d.
CurveValues == { [n |-> 1, d |-> 1], [n |-> 2, d |-> 1], [n |-> 5, d |-> 2], [n |-> 3, d |-> 1] }
CurveThresholds == {2, 3}
Curves == UNION { [ 1..k -> CurveValues ] : k \in 0..MaxCurve }

\* post_dates[np.where(proj_post < threshold)[0][0]] on one curve.
ScanCurve ==
    /\ scan.result = Unset
    /\ scan' = [scan EXCEPT !.result = FirstCrossing(scan.dates, scan.curve, scan.threshold)]
    /\ UNCHANGED << data, orig, added, runVars, solver >>

InitCrossing ==
    /\ data = [measurements |-> << >>,
               settings |-> CHOOSE st \in Settings : TRUE, other |-> "kept"]
    /\ orig = data
    /\ added = << >>
    /\ pc = "start"
    /\ error = "none"
    /\ df = << >>
    /\ df_pre = << >>
    /\ df_post = << >>
    /\ fits = NoFits
    /\ proj = NoProj
    /\ found = NoFound
    /\ pdf = << >>
    /\ solver = NoSolver
    /\ \E c \in Curves, t \in CurveThresholds, start \in Days :
         scan = [dates |-> DateRange(start, start + Len(c) - 1), curve |-> c,
                 threshold |-> t, result |-> Unset]

NextCrossing == ScanCurve

SpecCrossing == InitCrossing /\ [][NextCrossing]_vars

\* ------------------------------------------------ one curve_fit call
\* Mutant of MaxFev: the post-phase call passes maxfev=10000 as well.
MaxFevSame(phase) == 10000

\* The cap on function evaluations of each call.  The pre-phase call passes
\* maxfev=10000.  The post-phase call passes none, and scipy's least_squares
\* then stops a trf run after 100 evaluations per parameter.
MaxFev(phase) == IF phase = "pre" THEN 10000 ELSE 100 * NParams(phase)

\* The loop below is the least-squares iteration that curve_fit runs: one
\* evaluation after another until the tolerance is met or the cap is
\* reached.  main only makes the two calls and sets their caps.

\* curve_fit looks at its input before it iterates.
SolverCheckInput ==
    /\ solver.status = "called"
    /\ solver' = [solver EXCEPT !.status =
                    IF InputError(solver.phase, solver.m) = "none"
                    THEN "running" ELSE InputError(solver.phase, solver.m)]
    /\ UNCHANGED << data, orig, added, runVars, scan >>

\* One more evaluation of the model function.
SolverEvaluate ==
    /\ solver.status = "running"
    /\ solver.nfev < MaxFev(solver.phase)
    /\ solver' = [solver EXCEPT !.nfev = @ + 1]
    /\ UNCHANGED << data, orig, added, runVars, scan >>

\* The tolerance is met: curve_fit returns popt.
SolverConverge ==
    /\ solver.status = "running"
    /\ solver.nfev >= 1
    /\ solver' = [solver EXCEPT !.status = "converged"]
    /\ UNCHANGED << data, orig, added, runVars, scan >>

\* The cap is reached: curve_fit raises RuntimeError.
SolverGiveUp ==
    /\ solver.status = "running"
    /\ solver.nfev >= MaxFev(solver.phase)
    /\ solver' = [solver EXCEPT !.status = "RuntimeError"]
    /\ UNCHANGED << data, orig, added, runVars, scan >>

InitFit ==
    /\ data = [measurements |-> << >>,
               settings |-> CHOOSE st \in Settings : TRUE, other |-> "kept"]
    /\ orig = data
    /\ added = << >>
    /\ pc = "start"
    /\ error = "none"
    /\ df = << >>
    /\ df_pre = << >>
    /\ df_post = << >>
    /\ fits = NoFits
    /\ proj = NoProj
    /\ found = NoFound
    /\ pdf = << >>
    /\ scan = NoScan
    /\ \E p \in {"pre", "post"}, m \in 0..MaxLen :
         solver = [phase |-> p, m |-> m, nfev |-> 0, status |-> "called"]

NextFit ==
    \/ SolverCheckInput
    \/ SolverEvaluate
    \/ SolverConverge
    \/ SolverGiveUp

\* main is one thread doing arithmetic: a call that can take a step takes it.
SpecFit == InitFit /\ [][NextFit]_vars /\ WF_vars(NextFit)

\* ================================================================ claims
\* The statement that assigns df_pre and df_post has run.
SplitDone == pc \in {"split", "fit_pre", "fit_post", "projected", "thresholds", "done"}
                \/ fits["pre"].called

\* The statement that builds the DataFrame has run.
Prepared == pc = "prepared" \/ SplitDone

\* C1: after the split, a row is in the pre window exactly when its date is
\* <= the cutover and in the post window exactly when its date is >= the
\* cutover; a row dated at the cutover is in both, any other row in exactly
\* one; the windows hold each row at most once and only rows of the series,
\* and the series has one row per stored measurement.
C1_PhaseSplit ==
    SplitDone =>
        LET cut == data.settings.split_date
        IN  /\ Len(df) = Len(data.measurements)
            /\ \A i \in 1..Len(df) :
                 /\ df[i].Date = data.measurements[i].date
                 /\ (df[i] \in Range(df_pre)) <=> (df[i].Date <= cut)
                 /\ (df[i] \in Range(df_post)) <=> (df[i].Date >= cut)
                 /\ (df[i].Date = cut) => (df[i] \in Range(df_pre) /\ df[i] \in Range(df_post))
                 /\ (df[i].Date # cut) => ~(df[i] \in Range(df_pre) /\ df[i] \in Range(df_post))
            /\ Range(df_pre) \cup Range(df_post) = Range(df)
            /\ Cardinality(Range(df_pre)) = Len(df_pre)
            /\ Cardinality(Range(df_post)) = Len(df_post)

\* C1 witness: a split series with rows before, at and after the cutover.
C1_Witness ==
    /\ SplitDone
    /\ \E i, j, k \in 1..Len(df) :
         /\ df[i].Date < data.settings.split_date
         /\ df[j].Date = data.settings.split_date
         /\ df[k].Date > data.settings.split_date
         /\ df[j] \in Range(df_pre) /\ df[j] \in Range(df_post)

\* C2: the lookup returns the date at the smallest index whose value is
\* strictly less than the threshold: the point there is below, every point
\* before it is >= the threshold (a point equal to the threshold is not a
\* crossing), whatever the shape of the curve; it raises IndexError exactly
\* when no point is strictly below.
C2_FirstStrictlyBelow ==
    scan.result # Unset =>
        LET c == scan.curve
            t == scan.threshold
        IN  /\ (scan.result.kind = "date") =>
                  \E i \in 1..Len(c) :
                      /\ scan.dates[i] = scan.result.v
                      /\ c[i].n < t * c[i].d
                      /\ \A j \in 1..(i - 1) : c[j].n >= t * c[j].d
            /\ (scan.result.kind = "IndexError") <=>
                  (\A i \in 1..Len(c) : c[i].n >= t * c[i].d)

\* C2 witness: a curve that both rises and falls, with a point equal to the
\* threshold ahead of the crossing that is returned.
C2_Witness ==
    /\ scan.result.kind = "date"
    /\ \E i, j \in 1..Len(scan.curve) :
         /\ j < i
         /\ scan.dates[i] = scan.result.v
         /\ scan.curve[j].n = scan.threshold * scan.curve[j].d
    /\ \E a, b \in 1..Len(scan.curve) :
         a < b /\ scan.curve[a].n * scan.curve[b].d < scan.curve[b].n * scan.curve[a].d
    /\ \E a, b \in 1..Len(scan.curve) :
         a < b /\ scan.curve[a].n * scan.curve[b].d > scan.curve[b].n * scan.curve[a].d

\* The threshold statements have run (to the end, or to an exception).
ThresholdsRan == proj.set /\ pc # "projected"

NoPointBelow(threshold) ==
    \A i \in 1..Len(proj.proj_post) :
        proj.proj_post[i].n >= threshold * proj.proj_post[i].d

\* C3: when no point of the projected post curve is strictly below a
\* threshold (the empty date range included), the threshold step gives a
\* NotFound result for that threshold; the run does not end in an unrelated
\* error and no date is made up.
C3_NotFoundIsAResult ==
    /\ (ThresholdsRan /\ NoPointBelow(data.settings.vgpr_threshold)) =>
           (error = "none" /\ found.vgpr_date.kind = "NotFound")
    /\ (ThresholdsRan /\ ~NoPointBelow(data.settings.vgpr_threshold)
           /\ NoPointBelow(data.settings.cr_threshold)) =>
           (error = "none" /\ found.cr_date.kind = "NotFound")

\* C4: a pre window of fewer than 3 rows or a post window of fewer than 2
\* ends the run with InsufficientPhaseData before the fitter is called on
\* it, and no parameters come from such a window.
C4_InsufficientPhaseData ==
    /\ fits["pre"].called => Len(fits["pre"].x) >= 3
    /\ fits["post"].called => Len(fits["post"].x) >= 2
    /\ (SplitDone /\ pc # "split" /\ (Len(df_pre) < 3 \/ Len(df_post) < 2)) =>
           error = "InsufficientPhaseData"

\* C5: for every series the program accepts, the day offsets handed to each
\* fit are in non-decreasing order, are all >= 0, and the smallest is 0.
C5_WindowsSortedByOffset ==
    \A p \in {"pre", "post"} :
        fits[p].called =>
            LET x == fits[p].x
            IN  /\ \A i \in 1..Len(x) : x[i] >= 0
                /\ (x # << >>) => (\E i \in 1..Len(x) : x[i] = 0)
                /\ \A i \in 1..(Len(x) - 1) : x[i] <= x[i + 1]

\* C6: a row whose lambda is zero gets an error or a flagged, undefined
\* ratio: never an infinite or ordinary number, in the DataFrame or in the
\* report table.
C6_ZeroLambdaFlagged ==
    /\ Prepared =>
         \A i \in 1..Len(df) :
             (df[i].Lambda = 0) => (df[i].Ratio.kind \notin {"inf", "num"})
    /\ (pdf # << >>) =>
         \A i \in 1..Len(pdf[3].rows) :
             (df[i].Lambda = 0) => (pdf[3].rows[i].Ratio.kind \notin {"inf", "num"})

\* Date order of the rows (rows of one date in stored order).
Before(a, b) == a.Date < b.Date \/ (a.Date = b.Date /\ a.Index < b.Index)

\* C7: one row per observation; the first row in date order has delta 0 and
\* percent change 0; every later row has delta = primary(t) - primary(t-1)
\* and percent change = 100 * delta / primary(t-1), t-1 being the row
\* immediately before it in date order (values to the one decimal the table
\* shows; no value is claimed where primary(t-1) is zero).
C7_DerivedAgainstPreviousInDateOrder ==
    Prepared =>
        /\ Len(df) = Len(data.measurements)
        /\ \A i \in 1..Len(df) :
             LET earlier == { j \in 1..Len(df) : Before(df[j], df[i]) }
             IN  IF earlier = {}
                 THEN df[i].Delta = 0 /\ df[i].PctChange = Num(0)
                 ELSE LET p == CHOOSE j \in earlier :
                                   \A k \in earlier : k = j \/ Before(df[k], df[j])
                          d == df[i].Kappa - df[p].Kappa
                      IN  /\ df[i].Delta = RoundHalfEven(d, 10)
                          /\ (df[p].Kappa # 0) =>
                               df[i].PctChange = Num(RoundHalfEven(d * 1000, df[p].Kappa))

FitFailed(p) == fits[p].called /\ fits[p].status # "converged"

\* C8: a failed fit of either phase leaves main as its exception, with no
\* parameters; from then on nothing is projected, looked up or reported;
\* and a projection, a crossing date or a report page exists only after both
\* fits converged.
C8_FailedFitStopsTheRun ==
    /\ [](\A p \in {"pre", "post"} :
            FitFailed(p) =>
                /\ fits[p].popt = NoPopt
                /\ error = fits[p].status
                /\ pc = "aborted"
                /\ ~proj.set /\ found = NoFound /\ pdf = << >>)
    /\ [](proj.set =>
            \A p \in {"pre", "post"} : fits[p].called /\ fits[p].status = "converged")
    /\ []((found # NoFound \/ pdf # << >>) => proj.set)
    /\ [][ (\E p \in {"pre", "post"} : FitFailed(p)) => UNCHANGED runVars ]_vars

\* C8 witness: the pre fit converged, the post fit ran out of evaluations,
\* and the run ended there.
C8_Witness ==
    /\ fits["pre"].status = "converged"
    /\ fits["post"].status = "RuntimeError"
    /\ pc = "aborted"

Finished == {"converged", "RuntimeError", "ValueError", "TypeError"}

\* C9 as amended: every curve_fit call ends; it never evaluates the model
\* more often than its cap, and a call that gives up does so at its cap:
\* 10,000 evaluations for the pre-phase call, 200 for the post-phase call.
C9_FitTerminates ==
    /\ [](solver.status = "RuntimeError" =>
            solver.nfev = (IF solver.phase = "pre" THEN 10000 ELSE 200))
    /\ [](solver.nfev <= (IF solver.phase = "pre" THEN 10000 ELSE 200))
    /\ (solver.status \in {"called", "running"}) ~> (solver.status \in Finished)

\* C9 witness: the post-phase call gives up after 200 evaluations.
C9_Witness ==
    solver.phase = "post" /\ solver.status = "RuntimeError" /\ solver.nfev = 200

\* C9 as stated: whichever fit gives up, it does so at 10,000 iterations.
C9_CapIsTenThousand ==
    solver.status = "RuntimeError" => solver.nfev = 10000

\* C10: after n calls of add_new_data_point the measurements are the
\* original list followed by the n new records in call order, whatever their
\* dates; settings and every other key of the data file are as they were.
C10_AppendOnly ==
    /\ data.measurements = orig.measurements \o added
    /\ Len(data.measurements) = Len(orig.measurements) + Len(added)
    /\ data.settings = orig.settings
    /\ data.other = orig.other
    /\ DOMAIN data = DOMAIN orig

\* C10 witness: two calls on a non-empty file, one repeating a stored date
\* and one dated before a stored measurement.
C10_Witness ==
    /\ orig.measurements # << >>
    /\ Len(added) >= 2
    /\ \E i \in 1..Len(added) : added[i].date = orig.measurements[1].date
    /\ \E i \in 1..Len(added) : added[i].date < orig.measurements[1].date
====
